---- MODULE Spec2Model ----
(***************************************************************************)
(* Iron Blogger: ingestion of feed entries into the post store             *)
(* (Blog.sync_posts) and assignment of posts to accountability rounds      *)
(* (Post.assign_round), from src/ironblogger/model.py.                     *)
(*                                                                         *)
(* Time is counted in ticks.  A datetime is an integer number of ticks, a  *)
(* timedelta an integer difference.  Python's None (a NULL column, an      *)
(* absent attribute of the feedparser result) is the integer None.         *)
(***************************************************************************)
EXTENDS Integers, Sequences, FiniteSets, TLC

\* ------------------------------------------------------------ constants

DEBT_PER_POST == 500

LATE_PENALTY == 100

\* ironblogger.date.ROUND_LEN: the fixed length of a round, in ticks.
ROUND_LEN == 2

\* Python's None / SQL NULL / an attribute the feedparser result lacks.
None == -1

\* ---------------------------------------------------------------- bounds

\* Timestamps of feed entries range over 0..MaxTime.
MaxTime == 2

\* The post table holds at most MaxPosts rows.
MaxPosts == 2

\* The post table of the ingestion runs holds at most MaxSyncPosts rows.
MaxSyncPosts == 3

\* A fetched feed holds at most MaxEntries entries.
MaxEntries == 2

\* Late posts are published LateRounds rounds after tick 0.
LateRounds == 6

\* The post table of the late-post runs holds at most MaxLatePosts rows.
MaxLatePosts == 7

\* The post table of the interleaved runs holds at most MaxRacePosts rows.
MaxRacePosts == 2

\* Timestamps of the entries of the ingestion runs range over 0..MaxSyncTime.
MaxSyncTime == 1

\* The post table of the fetching runs holds at most MaxCachePosts rows.
MaxCachePosts == 2

\* The post table of the scanning runs holds at most MaxStopPosts rows.
MaxStopPosts == 2

\* HTTP validators (etag, modified) are opaque values 1..MaxTag.
MaxTag == 1

\* ------------------------------------------------------------ the schema

Bloggers == {1, 2}

Blogs == {1, 2, 3}

\* Blog.blogger_id: blogs 1 and 2 belong to blogger 1, blog 3 to blogger 2.
blogger_id(b) == IF b = 3 THEN 2 ELSE 1

Titles == {"Foo", "Bar"}

Times == 0 .. MaxTime

Validators == 1 .. MaxTag

\* The value of `last_post` when the blog has no post (Python's None).
NoPost == [blog |-> 0, timestamp |-> None, title |-> "", counts_for |-> None]

VARIABLES
    start_date,   \* Blogger.start_date, by blogger id
    posts,        \* the post table: posts[i] is the row with id i
    etag,         \* Blog.etag, by blog id
    modified,     \* Blog.modified, by blog id
    running,      \* assign_round calls in flight, by process
    last_run,     \* what the most recent operation was given and did
    overlapped    \* whether two assign_round calls have overlapped so far

vars == <<start_date, posts, etag, modified, running, last_run, overlapped>>

\* ------------------------------------------------------ ironblogger.date

\* duedate(t): the boundary instant of the round containing t (the end of
\* the round: rounds are [k*ROUND_LEN, (k+1)*ROUND_LEN)).
duedate(t) == ((t \div ROUND_LEN) + 1) * ROUND_LEN

\* divide_timedelta(numerator, denominator): the quotient of two
\* timedeltas, rounded up.
divide_timedelta(numerator, denominator) == -((-numerator) \div denominator)

\* ------------------------------------------------------- Post (parsing)

\* Post._get_pub_date: the first of published, created, updated that the
\* entry has and that is not None; None stands for MalformedPostError.
get_pub_date(entry) ==
    IF entry.published # None THEN entry.published
    ELSE IF entry.created # None THEN entry.created
    ELSE IF entry.updated # None THEN entry.updated
    ELSE None

\* Post.from_feed_entry: the Post built from a feed entry, blog and
\* counts_for still empty; ok = FALSE stands for MalformedPostError.
Malformed == [ok |-> FALSE, timestamp |-> None, title |-> ""]

from_feed_entry(entry) ==
    IF ~entry.has_title \/ ~entry.has_summary \/ ~entry.has_link
    THEN Malformed
    ELSE IF get_pub_date(entry) = None
    THEN Malformed
    ELSE [ok |-> TRUE, timestamp |-> get_pub_date(entry), title |-> entry.title]

\* map(Post.from_feed_entry, feed.entries)
ParseAll(entries) == [k \in 1 .. Len(entries) |-> from_feed_entry(entries[k])]

\* --------------------------------------------------------- feedparser

\* A feed entry as feedparser returns it.  A date key that is absent and
\* one that is present with value None are both None here: the code
\* treats them alike (line 195).
RawEntry(has_title, title, has_summary, has_link, published, created, updated) ==
    [has_title |-> has_title, title |-> title, has_summary |-> has_summary,
     has_link |-> has_link, published |-> published, created |-> created,
     updated |-> updated]

\* Well-formed entries carrying a `published` date.
PlainEntries(times, titles) ==
    {RawEntry(TRUE, ti, TRUE, TRUE, t, None, None) : t \in times, ti \in titles}

\* Well-formed entries whose date comes from a fallback key, or from
\* `published` when the other keys disagree with it.
FallbackEntries(times, titles) ==
    {RawEntry(TRUE, ti, TRUE, TRUE, None, t, MaxTime - t) : t \in times, ti \in titles}
    \cup {RawEntry(TRUE, ti, TRUE, TRUE, None, None, t) : t \in times, ti \in titles}
    \cup {RawEntry(TRUE, ti, TRUE, TRUE, t, MaxTime - t, None) : t \in times, ti \in titles}

\* Entries lacking a title, a summary, a link, or every date.
BrokenEntries(times, titles) ==
    {RawEntry(FALSE, "", TRUE, TRUE, t, None, None) : t \in times}
    \cup {RawEntry(TRUE, ti, FALSE, TRUE, t, None, None) : t \in times, ti \in titles}
    \cup {RawEntry(TRUE, ti, TRUE, FALSE, t, None, None) : t \in times, ti \in titles}
    \cup {RawEntry(TRUE, ti, TRUE, TRUE, None, None, None) : ti \in titles}

\* Sequences of at most n elements of S.
SeqUpTo(S, n) == UNION {[1 .. k -> S] : k \in 0 .. n}

\* The result of feedparser.parse: the HTTP status (None when the result
\* has no `status`), the bozo bit (feedparser's report of a transport or
\* parse failure; parse() itself does not raise), the validators the
\* response carried (None when the result has no such attribute) and the
\* entries.
Feeds(statuses, bozos, tags, entries, n) ==
    [status : statuses, bozo : bozos, etag : tags, modified : tags,
     entries : SeqUpTo(entries, n)]

\* ---------------------------------------------------- Blog.sync_posts

BlogPosts(b) == {i \in 1 .. Len(posts) : posts[i].blog = b}

\* LastPosts without filter_by(blog=self): the post of greatest timestamp
\* of the whole table.
LastPostsAnyBlog(b) ==
    IF posts = <<>> THEN {NoPost}
    ELSE {posts[i] : i \in {j \in 1 .. Len(posts) :
              \A k \in 1 .. Len(posts) : posts[k].timestamp <= posts[j].timestamp}}

\* Lines 105-107: the blog's post of greatest timestamp; which one, when
\* several share it, is the database's choice.
LastPosts(b) ==
    IF BlogPosts(b) = {} THEN {NoPost}
    ELSE {posts[i] : i \in {j \in BlogPosts(b) :
              \A k \in BlogPosts(b) : posts[k].timestamp <= posts[j].timestamp}}

\* ScanOrders without the reverse of line 121: oldest first.
ScanOrdersAscending(feed_posts) ==
    LET n == Len(feed_posts)
        perms == {f \in [1 .. n -> 1 .. n] : \A i, j \in 1 .. n : i # j => f[i] # f[j]}
        sorted(s) == \A i \in 1 .. n - 1 : s[i].timestamp <= s[i + 1].timestamp
    IN  {s \in {[k \in 1 .. n |-> feed_posts[f[k]]] : f \in perms} : sorted(s)}

\* Lines 120-122: the candidates sorted by (timestamp, post) and reversed.
\* Posts of equal timestamp compare by object identity, so any order of
\* them may result.
ScanOrders(feed_posts) ==
    LET n == Len(feed_posts)
        perms == {f \in [1 .. n -> 1 .. n] : \A i, j \in 1 .. n : i # j => f[i] # f[j]}
        sorted(s) == \A i \in 1 .. n - 1 : s[i].timestamp >= s[i + 1].timestamp
    IN  {s \in {[k \in 1 .. n |-> feed_posts[f[k]]] : f \in perms} : sorted(s)}

\* Lines 126-136: whether the loop breaks at candidate `post`.
IsKnown(post, last_post) ==
    /\ last_post # NoPost
    /\ \/ post.timestamp < last_post.timestamp
       \/ post.timestamp = last_post.timestamp /\ post.title = last_post.title

\* AddedPosts with `continue` in place of the `break` of lines 132 and 136:
\* a known candidate is skipped and the scan goes on.
RECURSIVE AddedPostsSkipping(_, _, _, _)
AddedPostsSkipping(b, scan, k, last_post) ==
    IF k > Len(scan) THEN <<>>
    ELSE IF IsKnown(scan[k], last_post)
    THEN AddedPostsSkipping(b, scan, k + 1, last_post)
    ELSE <<[blog |-> b, timestamp |-> scan[k].timestamp,
            title |-> scan[k].title, counts_for |-> None]>>
         \o AddedPostsSkipping(b, scan, k + 1, last_post)

\* AddedPosts giving every new post its natural round at insertion.
RECURSIVE AddedPostsAssigned(_, _, _, _)
AddedPostsAssigned(b, scan, k, last_post) ==
    IF k > Len(scan) THEN <<>>
    ELSE IF IsKnown(scan[k], last_post) THEN <<>>
    ELSE <<[blog |-> b, timestamp |-> scan[k].timestamp,
            title |-> scan[k].title, counts_for |-> duedate(scan[k].timestamp)]>>
         \o AddedPostsAssigned(b, scan, k + 1, last_post)

\* Lines 124-140: the posts handed to db.session.add, in that order.
RECURSIVE AddedPosts(_, _, _, _)
AddedPosts(b, scan, k, last_post) ==
    IF k > Len(scan) THEN <<>>
    ELSE IF IsKnown(scan[k], last_post) THEN <<>>
    ELSE <<[blog |-> b, timestamp |-> scan[k].timestamp,
            title |-> scan[k].title, counts_for |-> None]>>
         \o AddedPosts(b, scan, k + 1, last_post)

\* Blog._update_caching_info: a validator the result lacks leaves the
\* stored one as it is.
update_caching_info(old, new) == IF new # None THEN new ELSE old

SameEntries(s, t) ==
    /\ Len(s) = Len(t)
    /\ \A x \in {s[k] : k \in 1 .. Len(s)} \cup {t[k] : k \in 1 .. Len(t)} :
          Cardinality({k \in 1 .. Len(s) : s[k] = x})
              = Cardinality({k \in 1 .. Len(t) : t[k] = x})

\* What last_run records of one sync_posts call.
SyncRecord(b, feed, last_post, feed_posts, added, raised) ==
    [op |-> "sync", blog |-> b, post |-> 0, before |-> None, status |-> feed.status,
     bozo |-> feed.bozo, etag |-> feed.etag, modified |-> feed.modified,
     last_post |-> last_post, feed_posts |-> feed_posts,
     added |-> added, raised |-> raised,
     repeat |-> /\ last_run.op = "sync"
                /\ last_run.blog = b
                /\ ~last_run.raised
                /\ SameEntries(last_run.feed_posts, ParseAll(feed.entries))]

\* Blog.sync_posts on blog b, feedparser.parse returning `feed`.
sync_posts(b, feed) ==
    LET parsed == ParseAll(feed.entries)
    IN  \E last_post \in LastPosts(b) :
          IF \E k \in 1 .. Len(parsed) : ~parsed[k].ok
          THEN \* line 116 raises MalformedPostError: nothing was added, the
               \* caching info was not touched and nothing was committed.
               /\ last_run' = SyncRecord(b, feed, last_post, parsed, <<>>, TRUE)
               /\ UNCHANGED <<start_date, posts, etag, modified, running, overlapped>>
          ELSE \E scan \in ScanOrders(parsed) :
               LET added == AddedPosts(b, scan, 1, last_post)
               IN  /\ posts' = posts \o added
                   /\ etag' = [etag EXCEPT ![b] = update_caching_info(@, feed.etag)]
                   /\ modified' = [modified EXCEPT ![b] = update_caching_info(@, feed.modified)]
                   /\ last_run' = SyncRecord(b, feed, last_post, scan, added, FALSE)
                   /\ UNCHANGED <<start_date, running, overlapped>>

\* --------------------------------------------------- Post.assign_round

MaxOf(a, b) == IF a >= b THEN a ELSE b

\* Line 263: DEBT_PER_POST / LATE_PENALTY is Python 2 integer division.
LookBack == DEBT_PER_POST \div LATE_PENALTY

\* oldest_valid_duedate without the look-back bound: the window reaches
\* back to the enrollment round.
OldestSinceEnrollment(post) == duedate(start_date[blogger_id(post.blog)])

\* oldest_valid_duedate without line 264: the window is not clamped to the
\* enrollment round.
OldestByLookBack(post) == duedate(post.timestamp) - ROUND_LEN * LookBack

\* Lines 263-264.
oldest_valid_duedate(post) ==
    MaxOf(duedate(post.timestamp) - ROUND_LEN * LookBack,
          duedate(start_date[blogger_id(post.blog)]))

\* ClaimedDates without the join on Blog.blogger_id: only the rounds claimed
\* on the post's own blog.
ClaimedDatesOwnBlog(post) ==
    {posts[j].counts_for : j \in {k \in 1 .. Len(posts) :
        /\ posts[k].counts_for # None
        /\ posts[k].counts_for <= duedate(post.timestamp)
        /\ posts[k].counts_for >= oldest_valid_duedate(post)
        /\ posts[k].blog = post.blog}}

\* ClaimedDates without the filter on Blog.blogger_id: the rounds of the
\* window claimed by any post of the table.
ClaimedDatesAnyBlogger(post) ==
    {posts[j].counts_for : j \in {k \in 1 .. Len(posts) :
        /\ posts[k].counts_for # None
        /\ posts[k].counts_for <= duedate(post.timestamp)
        /\ posts[k].counts_for >= oldest_valid_duedate(post)}}

\* Lines 265-273: the rounds of the window claimed by posts of the same
\* blogger, on any of the blogger's blogs (the post itself included).
ClaimedDates(post) ==
    {posts[j].counts_for : j \in {k \in 1 .. Len(posts) :
        /\ posts[k].counts_for # None
        /\ posts[k].counts_for <= duedate(post.timestamp)
        /\ posts[k].counts_for >= oldest_valid_duedate(post)
        /\ blogger_id(posts[k].blog) = blogger_id(post.blog)}}

\* SearchRound stepping forward from the oldest round of the window.
RECURSIVE SearchOldestFirst(_, _, _, _)
SearchOldestFirst(round, oldest, dates, current) ==
    IF oldest <= round
    THEN IF oldest \notin dates THEN oldest
         ELSE SearchOldestFirst(round, oldest + ROUND_LEN, dates, current)
    ELSE current

\* Lines 276-281: the loop; `current` is counts_for as it was, kept when
\* the loop ends without assigning.
RECURSIVE SearchRound(_, _, _, _)
SearchRound(round, oldest, dates, current) ==
    IF round >= oldest
    THEN IF round \notin dates THEN round
         ELSE SearchRound(round - ROUND_LEN, oldest, dates, current)
    ELSE current

\* AssignedRound without the test `round not in dates`: the natural round
\* whenever the window is not empty.
AssignedNaturalRound(post, dates) ==
    SearchRound(duedate(post.timestamp), oldest_valid_duedate(post), {},
                post.counts_for)

\* The value assign_round leaves in counts_for of `post`, having read
\* `dates` at lines 265-273.
AssignedRound(post, dates) ==
    SearchRound(duedate(post.timestamp), oldest_valid_duedate(post), dates,
                post.counts_for)

Idle == [post |-> 0, dates |-> {}]

AssignRecord(i) ==
    [op |-> "assign", blog |-> posts[i].blog, post |-> i,
     before |-> posts[i].counts_for, status |-> None,
     bozo |-> FALSE, etag |-> None, modified |-> None, last_post |-> NoPost,
     feed_posts |-> <<>>, added |-> <<>>, raised |-> FALSE, repeat |-> FALSE]

\* assign_round taking the natural round from whichever post holds it:
\* post i gets its natural round and every other post on it loses its own.
AssignDisplacing(i) ==
    /\ \A p \in DOMAIN running : running[p] = Idle
    /\ posts' = [j \in 1 .. Len(posts) |->
                    IF j = i
                    THEN [posts[j] EXCEPT !.counts_for =
                             AssignedNaturalRound(posts[i], {})]
                    ELSE IF posts[j].counts_for = duedate(posts[i].timestamp)
                    THEN [posts[j] EXCEPT !.counts_for = None]
                    ELSE posts[j]]
    /\ last_run' = AssignRecord(i)
    /\ UNCHANGED <<start_date, etag, modified, running, overlapped>>

\* Post.assign_round on the post with id i, run without interruption.
assign_round(i) ==
    /\ \A p \in DOMAIN running : running[p] = Idle
    /\ posts' = [posts EXCEPT ![i].counts_for = AssignedRound(posts[i], ClaimedDates(posts[i]))]
    /\ last_run' = AssignRecord(i)
    /\ UNCHANGED <<start_date, etag, modified, running, overlapped>>

\* Lines 265-273 of an assign_round call by process p on post i: the
\* claimed rounds are read.
AssignRead(p, i) ==
    /\ running[p] = Idle
    /\ running' = [running EXCEPT ![p] = [post |-> i, dates |-> ClaimedDates(posts[i])]]
    /\ overlapped' = (overlapped \/ \E q \in DOMAIN running \ {p} : running[q] # Idle)
    /\ UNCHANGED <<start_date, posts, etag, modified, last_run>>

\* Lines 276-281 of the call by process p: the round is chosen among the
\* rounds read and written to counts_for.
AssignWrite(p) ==
    /\ running[p] # Idle
    /\ LET i == running[p].post
       IN  /\ posts' = [posts EXCEPT ![i].counts_for = AssignedRound(posts[i], running[p].dates)]
           /\ last_run' = AssignRecord(i)
    /\ running' = [running EXCEPT ![p] = Idle]
    /\ UNCHANGED <<start_date, etag, modified, overlapped>>

\* ---------------------------------------------------- Post.rounds_late

\* rounds_late measuring from the timestamp instead of its round.
RoundsLateFromTimestamp(post) ==
    IF post.counts_for = None THEN None
    ELSE divide_timedelta(post.timestamp - post.counts_for, ROUND_LEN)

\* Lines 283-294.
rounds_late(post) ==
    IF post.counts_for = None THEN None
    ELSE divide_timedelta(duedate(post.timestamp) - post.counts_for, ROUND_LEN)

\* ------------------------------------------------------- specifications

Procs == {1, 2}

NoRun ==
    [op |-> "init", blog |-> 0, post |-> 0, before |-> None, status |-> None, bozo |-> FALSE,
     etag |-> None, modified |-> None, last_post |-> NoPost, feed_posts |-> <<>>, added |-> <<>>,
     raised |-> FALSE, repeat |-> FALSE]

\* The state after the bloggers and blogs were registered: no posts, no
\* caching info, the bloggers enrolled together at one of `starts`.
InitFrom(starts) ==
    /\ \E s \in starts : start_date = [b \in Bloggers |-> s]
    /\ posts = <<>>
    /\ etag = [b \in Blogs |-> None]
    /\ modified = [b \in Blogs |-> None]
    /\ running = [p \in Procs |-> Idle]
    /\ last_run = NoRun
    /\ overlapped = FALSE

\* sync_posts on one of `blogs`, the fetch returning one of `feeds`.
Sync(blogs, feeds, maxPosts) ==
    \E b \in blogs, feed \in feeds :
        /\ sync_posts(b, feed)
        /\ Len(posts') <= maxPosts

\* assign_round on any stored post.
Assign == \E i \in 1 .. Len(posts) : assign_round(i)

\* assign_round on a post that holds no round yet.
AssignNew == \E i \in 1 .. Len(posts) : posts[i].counts_for = None /\ assign_round(i)

\* The batch job, one operation at a time: every blog is synced against
\* well-formed feeds, and rounds are assigned.
Init == InitFrom({0, ROUND_LEN})

Next ==
    \/ Sync(Blogs, Feeds({200}, {FALSE}, {None}, PlainEntries(Times, {"Foo"}), 1), MaxPosts)
    \/ Assign

Spec == Init /\ [][Next]_vars

\* A blogger who posts on one blog once a round for LateRounds rounds and
\* once more in the last of them, rounds being assigned to posts that hold
\* none, enrolled at tick 0 (the window of the
\* late posts is bounded by the look-back) or at the last round (it is
\* bounded by the enrollment round).
LateTime == LateRounds * ROUND_LEN

LateTimes == {k * ROUND_LEN : k \in 1 .. LateRounds} \cup {LateTime + 1}

InitLate == InitFrom({0, LateTime})

NextLate ==
    \/ Sync({1}, Feeds({200}, {FALSE}, {None}, PlainEntries(LateTimes, {"Foo"}), 1),
            MaxLatePosts)
    \/ AssignNew

SpecLate == InitLate /\ [][NextLate]_vars

\* Two processes run assign_round on the posts of blogger 1, enrolled at
\* tick 0, with no lock between them: the read of one call and its write
\* are separate steps.  Blogs are synced while no call is in flight.
NextRace ==
    \/ /\ \A p \in Procs : running[p] = Idle
       /\ Sync({1, 2}, Feeds({200}, {FALSE}, {None}, PlainEntries(Times, {"Foo"}), 1),
               MaxRacePosts)
    \/ \E p \in Procs, i \in 1 .. Len(posts) : AssignRead(p, i)
    \/ \E p \in Procs : AssignWrite(p)

SpecRace == InitFrom({0}) /\ [][NextRace]_vars

\* Ingestion alone: one blog is synced again and again against feeds of up
\* to MaxEntries entries, well-formed (dated by any of the three keys) or
\* broken.
SyncTimes == 0 .. MaxSyncTime

SyncEntries ==
    PlainEntries(SyncTimes, Titles) \cup FallbackEntries({1}, {"Bar"})
        \cup BrokenEntries({0}, {"Foo"})

NextSync == Sync({1}, Feeds({200}, {FALSE}, {None}, SyncEntries, MaxEntries), MaxSyncPosts)

SpecSync == InitFrom({0}) /\ [][NextSync]_vars

\* Ingestion of well-formed feeds of one blog whose posts all carry the
\* same title; the server answers 200 or 304, which sync_posts only logs.
NextOrder ==
    Sync({1}, Feeds({200, 304}, {FALSE}, {None}, PlainEntries(SyncTimes, {"Foo"}), MaxEntries),
         MaxSyncPosts)

SpecOrder == InitFrom({0}) /\ [][NextOrder]_vars

\* Scanning: one blog is synced against well-formed feeds whose entries
\* are titled alike, but for one at tick 0 with a title of its own.
StopEntries == PlainEntries(SyncTimes, {"Foo"}) \cup PlainEntries({0}, {"Bar"})

NextStop ==
    Sync({1}, Feeds({200}, {FALSE}, {None}, StopEntries, MaxEntries), MaxStopPosts)

SpecStop == InitFrom({0}) /\ [][NextStop]_vars

\* Fetching: two blogs are synced against responses that may report not
\* modified or a failure (bozo) and may carry validators.
CacheEntries == PlainEntries({0}, {"Foo"}) \cup BrokenEntries({0}, {"Foo"})

NextCache ==
    Sync({1, 2}, Feeds({200, 304}, BOOLEAN, {None} \cup Validators, CacheEntries, 1),
         MaxCachePosts)

SpecCache == InitFrom({0}) /\ [][NextCache]_vars

\* Two blogs of one blogger are synced against well-formed responses that
\* may carry validators.
NextTwoBlogs ==
    Sync({1, 2}, Feeds({200}, {FALSE}, {None} \cup Validators,
                       PlainEntries({0}, {"Foo"}), 1),
         MaxCachePosts)

SpecTwoBlogs == InitFrom({0}) /\ [][NextTwoBlogs]_vars

\* ------------------------------------------------------------ properties

SameBlogger(i, j) == blogger_id(posts[i].blog) = blogger_id(posts[j].blog)

PostIds == 1 .. Len(posts)

\* C1 (exclusivity): in every state reached by sync_posts and assign_round
\* run one at a time, no two distinct posts of one blogger, on whichever of
\* the blogger's blogs, hold the same non-null counts_for.
Exclusivity ==
    \A i, j \in PostIds :
        (i # j /\ SameBlogger(i, j) /\ posts[i].counts_for # None)
            => posts[i].counts_for # posts[j].counts_for

\* Two posts of one blogger on different blogs fall in the same round and
\* both hold a round.
ExclusivityWitness ==
    \E i, j \in PostIds :
        /\ i # j /\ SameBlogger(i, j) /\ posts[i].blog # posts[j].blog
        /\ duedate(posts[i].timestamp) = duedate(posts[j].timestamp)
        /\ posts[i].counts_for # None /\ posts[j].counts_for # None

\* C3 (set at most once): once counts_for of a post is non-null no step
\* changes it; a repeated assign_round leaves it as it is.
AssignedOnce ==
    [][\A i \in PostIds :
          posts[i].counts_for # None => posts'[i].counts_for = posts[i].counts_for]_vars

\* The rounds of the window [oldest, natural] of post i that no other post
\* of the same blogger claims.
FreeRounds(i) ==
    {r \in {duedate(posts[i].timestamp) - k * ROUND_LEN :
                k \in 0 .. (DEBT_PER_POST \div LATE_PENALTY)} :
        /\ r >= duedate(start_date[blogger_id(posts[i].blog)])
        /\ \A j \in PostIds \ {i} : SameBlogger(i, j) => posts[j].counts_for # r}

\* C5 (greedy, newest eligible first): assign_round on an unassigned post
\* gives it the most recent round of its window that no other post of the
\* blogger claims, and leaves it unassigned exactly when there is none.
GreedyNewestFirst ==
    [][\A i \in PostIds :
          (last_run'.op = "assign" /\ last_run'.post = i /\ posts[i].counts_for = None)
              => /\ FreeRounds(i) = {} => posts'[i].counts_for = None
                 /\ FreeRounds(i) # {} =>
                        /\ posts'[i].counts_for \in FreeRounds(i)
                        /\ \A r \in FreeRounds(i) : r <= posts'[i].counts_for]_vars

\* assign_round has just moved an unassigned post to the round before its
\* natural one, which a post on another blog of the blogger holds.
GreedyWitness ==
    /\ last_run.op = "assign" /\ last_run.before = None
    /\ LET i == last_run.post
       IN  /\ posts[i].counts_for = duedate(posts[i].timestamp) - ROUND_LEN
           /\ \E j \in PostIds :
                 /\ SameBlogger(i, j) /\ posts[j].blog # posts[i].blog
                 /\ posts[j].counts_for = duedate(posts[i].timestamp)

\* C4 (assigned-round range): a round held by a post is no later than the
\* post's natural round, no earlier than floor(DEBT_PER_POST / LATE_PENALTY)
\* rounds before it, and no earlier than the blogger's enrollment round.
RoundInRange ==
    \A i \in PostIds :
        posts[i].counts_for # None =>
            /\ posts[i].counts_for <= duedate(posts[i].timestamp)
            /\ posts[i].counts_for >= duedate(posts[i].timestamp)
                                        - ROUND_LEN * (DEBT_PER_POST \div LATE_PENALTY)
            /\ posts[i].counts_for >= duedate(start_date[blogger_id(posts[i].blog)])

\* assign_round has just given a post the oldest round the look-back
\* allows, five rounds before its natural round and later than the
\* enrollment round.
RoundInRangeWitness ==
    /\ last_run.op = "assign" /\ last_run.before = None
    /\ LET i == last_run.post
       IN  /\ posts[i].counts_for = duedate(posts[i].timestamp) - ROUND_LEN * 5
           /\ posts[i].counts_for > duedate(start_date[blogger_id(posts[i].blog)])

\* C8 (race on unserialized assignment): two posts of one blogger hold the
\* same round only if two assign_round calls overlapped, one reading the
\* claimed rounds between the read and the write of the other; calls that
\* run one after the other never produce such a state.
RaceNeedsOverlap == ~Exclusivity => overlapped

\* Both calls read before either wrote, and two posts of one blogger hold
\* the same round.
RaceWitness ==
    /\ overlapped
    /\ \E i, j \in PostIds :
          /\ i # j /\ SameBlogger(i, j)
          /\ posts[i].counts_for # None
          /\ posts[i].counts_for = posts[j].counts_for

\* Whether a post with the timestamp and title of candidate c is stored on
\* blog b.
Stored(b, c) ==
    \E i \in PostIds :
        /\ posts[i].blog = b
        /\ posts[i].timestamp = c.timestamp
        /\ posts[i].title = c.title

\* Whether the last sync_posts run handed candidate c to db.session.add.
WasAdded(c) ==
    \E k \in 1 .. Len(last_run.added) :
        /\ last_run.added[k].timestamp = c.timestamp
        /\ last_run.added[k].title = c.title

Candidates == {last_run.feed_posts[k] : k \in 1 .. Len(last_run.feed_posts)}

\* C2 (ingestion idempotence): a sync_posts run on a blog that follows at
\* once a run on the same blog with the same upstream entries adds no post
\* and changes no assigned round, also when entries share a timestamp.
SyncIdempotent ==
    [][(last_run'.op = "sync" /\ last_run'.repeat) => posts' = posts]_vars

\* C6 (malformed-entry isolation): when a fetched feed holds a malformed
\* entry, every well-formed entry of the same fetch that is newer than
\* all the blog has stored is stored nevertheless.
MalformedIsolated ==
    (last_run.op = "sync" /\ \E c \in Candidates : ~c.ok) =>
        \A c \in Candidates :
            (c.ok /\ c.timestamp > last_run.last_post.timestamp)
                => Stored(last_run.blog, c)

\* C7 (duplicate rule at equal timestamp): with the last known post at
\* timestamp T titled X, a run that parsed all its entries does not insert
\* a candidate (T, X) and inserts every candidate at T with another title,
\* whatever else the fetch holds.
DuplicateRule ==
    (last_run.op = "sync" /\ ~last_run.raised /\ last_run.last_post # NoPost) =>
        \A c \in Candidates :
            c.timestamp = last_run.last_post.timestamp =>
                (WasAdded(c) <=> c.title # last_run.last_post.title)

FailureChangesNothing ==
    [][(last_run'.op = "sync" /\ (last_run'.raised \/ last_run'.bozo))
          => (posts' = posts /\ etag' = etag /\ modified' = modified)]_vars

\* C11 (cache metadata tracks the latest fetch): after a sync_posts run
\* that completed, etag and modified of the blog equal the validators the
\* fetch returned, posts added or not, also when the response carried no
\* validator of one kind.
CacheTracksFetch ==
    (last_run.op = "sync" /\ ~last_run.raised) =>
        /\ etag[last_run.blog] = last_run.etag
        /\ modified[last_run.blog] = last_run.modified

\* C12 (not-modified short-circuit): a sync_posts run whose fetch reported
\* status 304 adds no post, whatever entries the response holds.
NotModifiedAddsNothing ==
    [][(last_run'.op = "sync" /\ last_run'.status = 304)
          => (last_run'.added = <<>> /\ posts' = posts)]_vars

\* C13 (rounds_late arithmetic): rounds_late is None exactly when
\* counts_for is unset; for a post assigned k rounds before its natural
\* round it is k, a non-negative integer no larger than
\* floor(DEBT_PER_POST / LATE_PENALTY), 0 for the natural round.
RoundsLateArithmetic ==
    \A i \in PostIds :
        /\ (rounds_late(posts[i]) = None) <=> (posts[i].counts_for = None)
        /\ posts[i].counts_for # None =>
              /\ rounds_late(posts[i]) \in 0 .. (DEBT_PER_POST \div LATE_PENALTY)
              /\ posts[i].counts_for
                    = duedate(posts[i].timestamp) - rounds_late(posts[i]) * ROUND_LEN

\* One post is not late, one is as late as the look-back allows and one
\* holds no round.
RoundsLateWitness ==
    \E i, j, k \in PostIds :
        /\ rounds_late(posts[i]) = 0
        /\ rounds_late(posts[j]) = DEBT_PER_POST \div LATE_PENALTY
        /\ rounds_late(posts[k]) = None

\* C14 (no displacement): assign_round on a post changes at most the
\* counts_for of that post; every other post keeps its row, so a post that
\* holds a round keeps it when a later post eligible for the same round is
\* assigned.
NoDisplacement ==
    [][last_run'.op = "assign" =>
          /\ Len(posts') = Len(posts)
          /\ \A j \in PostIds :
                /\ j # last_run'.post => posts'[j] = posts[j]
                /\ posts'[j].blog = posts[j].blog
                /\ posts'[j].timestamp = posts[j].timestamp
                /\ posts'[j].title = posts[j].title]_vars

\* assign_round has just run on a post whose natural round an older row of
\* the same blogger holds, and has given it the round before.
NoDisplacementWitness ==
    /\ last_run.op = "assign"
    /\ \E j \in PostIds :
          /\ j < last_run.post /\ SameBlogger(j, last_run.post)
          /\ posts[j].counts_for = duedate(posts[last_run.post].timestamp)
          /\ posts[last_run.post].counts_for = posts[j].counts_for - ROUND_LEN

\* Whether position k of the last run's scan holds a candidate older than
\* the blog's latest stored post at the start of the run, or a duplicate of
\* it (same timestamp and title).
StopsScan(k) ==
    /\ last_run.last_post # NoPost
    /\ \/ last_run.feed_posts[k].timestamp < last_run.last_post.timestamp
       \/ /\ last_run.feed_posts[k].timestamp = last_run.last_post.timestamp
          /\ last_run.feed_posts[k].title = last_run.last_post.title

\* C15 (stop at known material): a sync_posts run inserts no candidate
\* older than the blog's latest stored post at the start of the run, and
\* once the newest-first scan meets such a candidate or a duplicate, no
\* candidate after it in scan order is inserted: the inserted posts are
\* the candidates before the first such position.
StopAtKnown ==
    (last_run.op = "sync" /\ ~last_run.raised) =>
        /\ \A k \in 1 .. Len(last_run.added) :
              last_run.last_post # NoPost
                  => last_run.added[k].timestamp >= last_run.last_post.timestamp
        /\ Len(last_run.added) <= Len(last_run.feed_posts)
        /\ \A k \in 1 .. Len(last_run.added) :
              /\ last_run.added[k].timestamp = last_run.feed_posts[k].timestamp
              /\ last_run.added[k].title = last_run.feed_posts[k].title
        /\ \A k \in 1 .. Len(last_run.feed_posts) :
              StopsScan(k) => Len(last_run.added) < k

\* The scan met a duplicate of the latest stored post first; the candidate
\* after it, of the same timestamp and another title, was not inserted.
StopAtKnownWitness ==
    /\ last_run.op = "sync" /\ ~last_run.raised
    /\ Len(last_run.feed_posts) = 2 /\ last_run.added = <<>>
    /\ StopsScan(1) /\ ~StopsScan(2)

\* C16 (feed independence): a sync_posts run on blog A reads only blog A's
\* latest stored post, appends only posts of blog A, keeps every stored
\* row, and changes etag and modified of blog A only; what a run on any
\* other blog would read (its latest post, its validators) is unchanged,
\* so runs on distinct blogs commute.
FeedIndependence ==
    [][last_run'.op = "sync" =>
          /\ last_run'.last_post.blog \in {0, last_run'.blog}
          /\ Len(posts') >= Len(posts)
          /\ \A i \in 1 .. Len(posts') :
                IF i <= Len(posts) THEN posts'[i] = posts[i]
                ELSE posts'[i].blog = last_run'.blog
          /\ \A c \in Blogs \ {last_run'.blog} :
                /\ etag'[c] = etag[c]
                /\ modified'[c] = modified[c]
                /\ LastPosts(c)' = LastPosts(c)]_vars

\* sync_posts has just added a post to one blog and stored a validator for
\* it, while another blog has a post and a validator, and one validator
\* differs between the two blogs.
FeedIndependenceWitness ==
    /\ last_run.op = "sync" /\ last_run.added # <<>>
    /\ last_run.etag # None
    /\ \E c \in Blogs \ {last_run.blog} :
          /\ BlogPosts(c) # {}
          /\ etag[c] # None
          /\ modified[c] # modified[last_run.blog]

\* C17 (ingestion does not assign): every row that appears in the post
\* table has counts_for unset; no step changes blog, timestamp or title of
\* a stored row or removes one; and counts_for of a stored row changes
\* only in a step of assign_round on that row, never in a sync_posts run.
IngestionDoesNotAssign ==
    [][/\ Len(posts') >= Len(posts)
       /\ \A i \in 1 .. Len(posts') :
             IF i > Len(posts) THEN posts'[i].counts_for = None
             ELSE /\ posts'[i].blog = posts[i].blog
                  /\ posts'[i].timestamp = posts[i].timestamp
                  /\ posts'[i].title = posts[i].title
                  /\ posts'[i].counts_for # posts[i].counts_for
                        => (last_run'.op = "assign" /\ last_run'.post = i)
       /\ last_run'.op = "sync" =>
             \A i \in PostIds : posts'[i] = posts[i]]_vars

\* sync_posts has just added a post to a table in which a post of the
\* same blog holds a round; the new post holds none.
IngestionWitness ==
    /\ last_run.op = "sync" /\ last_run.added # <<>>
    /\ posts[Len(posts)].counts_for = None
    /\ \E i \in PostIds :
          posts[i].blog = last_run.blog /\ posts[i].counts_for # None

\* The rounds held by the posts of the blogger of post i, post i included.
OwnClaims(i) ==
    {posts[j].counts_for : j \in {k \in PostIds :
        SameBlogger(i, k) /\ posts[k].counts_for # None}}

\* The rounds post i may count for that its blogger's posts do not hold.
OpenRounds(i) ==
    {r \in {duedate(posts[i].timestamp) - k * ROUND_LEN :
                k \in 0 .. (DEBT_PER_POST \div LATE_PENALTY)} :
        /\ r >= duedate(start_date[blogger_id(posts[i].blog)])
        /\ r \notin OwnClaims(i)}

\* C18 (participant isolation): the round assign_round chooses for a post
\* is determined by the rounds the posts of the same blogger hold: the
\* latest round of the window none of them holds, and no change when there
\* is none; rounds held by posts of other bloggers neither block nor shift
\* the choice.
ParticipantIsolation ==
    [][\A i \in PostIds :
          (/\ last_run'.op = "assign" /\ last_run'.post = i
           /\ last_run'.before = posts[i].counts_for)
              => IF OpenRounds(i) = {}
                 THEN posts'[i].counts_for = posts[i].counts_for
                 ELSE /\ posts'[i].counts_for \in OpenRounds(i)
                      /\ \A r \in OpenRounds(i) : r <= posts'[i].counts_for]_vars

\* assign_round has just given an unassigned post its natural round, which
\* a post of another blogger holds.
ParticipantIsolationWitness ==
    /\ last_run.op = "assign" /\ last_run.before = None
    /\ LET i == last_run.post
       IN  /\ posts[i].counts_for = duedate(posts[i].timestamp)
           /\ \E j \in PostIds :
                 /\ ~SameBlogger(i, j)
                 /\ posts[j].counts_for = posts[i].counts_for

\* Whether the natural round of post i is earlier than the enrollment
\* round of its blogger.
PreEnrollment(i) ==
    duedate(posts[i].timestamp) < duedate(start_date[blogger_id(posts[i].blog)])

\* C19 (pre-enrollment posts never count): a post whose natural round is
\* earlier than the enrollment round of its blogger holds no round,
\* assign_round run on it or not, and its rounds_late is None.
PreEnrollmentNeverCounts ==
    \A i \in PostIds :
        PreEnrollment(i) =>
            /\ posts[i].counts_for = None
            /\ rounds_late(posts[i]) = None

\* assign_round has just run on a post published before the enrollment
\* round of its blogger.
PreEnrollmentWitness ==
    /\ last_run.op = "assign"
    /\ PreEnrollment(last_run.post)

====
